---- MODULE Spec2Model ----
(***************************************************************************)
(* Port Monitor (bazo/port-monitor): the process scanner, the process      *)
(* terminator and the Bubble Tea session (model.Update) as a state machine.*)
(* Strings are sequences of one-character strings, so that formatting,     *)
(* parsing, lower-casing and substring search are computed, not assumed.   *)
(***************************************************************************)
EXTENDS Integers, Sequences, FiniteSets, TLC

(***************************************************************************)
(* Strings                                                                 *)
(***************************************************************************)
\* The characters the model uses, in ASCII order (Go compares strings bytewise).
AsciiOrder ==
  << " ", "-", ".", "/",
     "0", "1", "2", "3", "4", "5", "6", "7", "8", "9",
     "A", "B", "C", "D", "E", "F", "G", "H", "I", "J", "K", "L", "M",
     "N", "O", "P", "Q", "R", "S", "T", "U", "V", "W", "X", "Y", "Z",
     "a", "b", "c", "d", "e", "f", "g", "h", "i", "j", "k", "l", "m",
     "n", "o", "p", "q", "r", "s", "t", "u", "v", "w", "x", "y", "z" >>

Chars == {AsciiOrder[i] : i \in 1..Len(AsciiOrder)}

\* The rank of each character in AsciiOrder.
OrdOf == [c \in Chars |-> CHOOSE i \in 1..Len(AsciiOrder) : AsciiOrder[i] = c]

Ord(c) == OrdOf[c]

IsUpper(c) == Ord(c) >= 15 /\ Ord(c) <= 40

IsDigit(c) == Ord(c) >= 5 /\ Ord(c) <= 14

\* strings.ToLower
ToLower(s) == [i \in 1..Len(s) |-> IF IsUpper(s[i]) THEN AsciiOrder[Ord(s[i]) + 26] ELSE s[i]]

\* strings.Contains
Contains(s, sub) ==
  \E i \in 0..(Len(s) - Len(sub)) : SubSeq(s, i + 1, i + Len(sub)) = sub

\* strings.HasPrefix
HasPrefix(s, p) == Len(s) >= Len(p) /\ SubSeq(s, 1, Len(p)) = p

\* strings.HasSuffix
HasSuffix(s, p) == Len(s) >= Len(p) /\ SubSeq(s, Len(s) - Len(p) + 1, Len(s)) = p

\* Go's < on strings: bytewise lexicographic, a proper prefix is smaller.
StrLess(a, b) ==
  LET n == IF Len(a) < Len(b) THEN Len(a) ELSE Len(b)
      diff == {i \in 1..n : a[i] # b[i]}
  IN  IF diff = {}
        THEN Len(a) < Len(b)
        ELSE LET i == CHOOSE k \in diff : \A l \in diff : k <= l
             IN  Ord(a[i]) < Ord(b[i])

RECURSIVE FormatDec(_)
\* fmt.Sprintf("%d", n) for n >= 0
FormatDec(n) ==
  IF n < 10 THEN << AsciiOrder[5 + n] >>
  ELSE Append(FormatDec(n \div 10), AsciiOrder[5 + (n % 10)])

RECURSIVE ScanDec(_, _, _)
\* fmt.Sscanf(s, "%d", &pid): the value of the leading digits; a failed scan
\* leaves pid at its zero value (the error is ignored by the callers).
ScanDec(s, i, acc) ==
  IF i > Len(s) \/ ~IsDigit(s[i]) THEN acc
  ELSE ScanDec(s, i + 1, acc * 10 + (Ord(s[i]) - 5))

ParsePid(s) == ScanDec(s, 1, 0)

\* filepath.Base: trailing slashes dropped, then the last element.
RECURSIVE StripSlashes(_)
StripSlashes(s) ==
  IF Len(s) > 0 /\ s[Len(s)] = "/" THEN StripSlashes(SubSeq(s, 1, Len(s) - 1)) ELSE s

Base(path) ==
  IF path = <<>> THEN << "." >>
  ELSE LET p == StripSlashes(path)
           slashes == {i \in 1..Len(p) : p[i] = "/"}
       IN  IF p = <<>> THEN << "/" >>
           ELSE IF slashes = {} THEN p
           ELSE LET last == CHOOSE k \in slashes : \A l \in slashes : l <= k
                IN  SubSeq(p, last + 1, Len(p))

(***************************************************************************)
(* scanner: ScanProcesses and KillProcess                                  *)
(***************************************************************************)
SystemProcess == "System"

UserProcess == "User"

NoErr == "nil"

\* A nil error of KillProcess (its errors carry the pid they are about).
NilErr == [pid |-> 0, what |-> "nil"]

\* A field read of the OS either yields a value or fails.
Ok(v) == [ok |-> TRUE, v |-> v]

Fail == [ok |-> FALSE, v |-> <<>>]

StrApplications == << "/", "A", "p", "p", "l", "i", "c", "a", "t", "i", "o", "n", "s" >>

StrDotApp == << ".", "a", "p", "p" >>

StrGoRun == << " ", "g", "o", " ", "r", "u", "n", " " >>

StrApps == << "a", "p", "p", "s" >>

\* The app-type heuristic of ScanProcesses.
AppTypeOf(cwd, name, cmdline) ==
  IF HasPrefix(cwd, StrApplications) \/ HasSuffix(name, StrDotApp) THEN "GUI App"
  ELSE IF Contains(cmdline, StrGoRun) \/ HasPrefix(Base(cwd), StrApps) THEN "Dev Tool"
  ELSE "Binary"

\* connMap[pid]: the connections of pid in enumeration order; empty when
\* net.Connections failed or the pid has none.
ConnMapAt(os, pid) ==
  IF os.connsErr THEN <<>>
  ELSE LET mine == SelectSeq(os.conns, LAMBDA c : c.Pid = pid)
       IN  [i \in 1..Len(mine) |-> [Port |-> mine[i].Port, Status |-> mine[i].Status]]

\* The body of the loop over procs for a process whose name was read.
ProcessInfoOf(os, p) ==
  LET username == IF p.Username.ok THEN p.Username.v ELSE "unknown"
      cwd      == IF p.Cwd.ok THEN p.Cwd.v ELSE <<>>
      cmdline  == IF p.Cmdline.ok THEN p.Cmdline.v ELSE <<>>
  IN  [ PID         |-> p.Pid,
        Name        |-> p.Name.v,
        User        |-> username,
        Type        |-> IF username = os.currentUser THEN UserProcess ELSE SystemProcess,
        Connections |-> ConnMapAt(os, p.Pid),
        Cwd         |-> cwd,
        Command     |-> cmdline,
        AppType     |-> AppTypeOf(cwd, p.Name.v, cmdline),
        CPUPercent  |-> IF p.Percent.ok THEN p.Percent.v ELSE 0,
        MemoryUsage |-> IF p.MemoryInfo.ok THEN p.MemoryInfo.v ELSE 0 ]

\* The loop over procs dropping a process whose owner cannot be read, as it
\* drops one whose name cannot.
RECURSIVE ScanLoopStrict(_, _, _)
ScanLoopStrict(os, i, results) ==
  IF i > Len(os.procs) THEN results
  ELSE IF ~os.procs[i].Name.ok \/ ~os.procs[i].Username.ok
    THEN ScanLoopStrict(os, i + 1, results)
  ELSE ScanLoopStrict(os, i + 1, Append(results, ProcessInfoOf(os, os.procs[i])))

RECURSIVE ScanLoop(_, _, _)
ScanLoop(os, i, results) ==
  IF i > Len(os.procs) THEN results
  ELSE IF ~os.procs[i].Name.ok THEN ScanLoop(os, i + 1, results)
  ELSE ScanLoop(os, i + 1, Append(results, ProcessInfoOf(os, os.procs[i])))

\* ScanProcesses giving up when net.Connections fails.
ScanProcessesFailFast(os) ==
  IF os.userErr THEN [procs |-> <<>>, err |-> "failed to get current user"]
  ELSE IF os.procsErr THEN [procs |-> <<>>, err |-> "failed to list processes"]
  ELSE IF os.connsErr THEN [procs |-> <<>>, err |-> "failed to list connections"]
  ELSE [procs |-> ScanLoop(os, 1, <<>>), err |-> NoErr]

\* scanner.ScanProcesses: (results, err)
ScanProcesses(os) ==
  IF os.userErr THEN [procs |-> <<>>, err |-> "failed to get current user"]
  ELSE IF os.procsErr THEN [procs |-> <<>>, err |-> "failed to list processes"]
  ELSE [procs |-> ScanLoop(os, 1, <<>>), err |-> NoErr]

\* scanner.KillProcess(pid) under an outcome of the OS for that pid:
\* "gone" (process.NewProcess fails), "denied" (p.Kill fails) or "killed".
KillProcess(pid, outcome) ==
  IF outcome[pid] = "gone" THEN [pid |-> pid, what |-> "process does not exist"]
  ELSE IF outcome[pid] = "denied" THEN [pid |-> pid, what |-> "operation not permitted"]
  ELSE NilErr

(***************************************************************************)
(* The Process Terminator: the command returned by killPending             *)
(***************************************************************************)
\* KillStep keeping the first error instead of overwriting it.
KillStepFirstErr(st, pid, outcome) ==
  LET err == KillProcess(pid, outcome)
  IN  IF err # NilErr
        THEN [count |-> st.count,
              err |-> IF st.err = NilErr THEN err ELSE st.err,
              attempted |-> Append(st.attempted, pid)]
        ELSE [count |-> st.count + 1, err |-> st.err, attempted |-> Append(st.attempted, pid)]

\* One iteration of the loop of killPending over pid; attempted logs the
\* calls of scanner.KillProcess.
KillStep(st, pid, outcome) ==
  LET err == KillProcess(pid, outcome)
  IN  IF err # NilErr
        THEN [count |-> st.count, err |-> err, attempted |-> Append(st.attempted, pid)]
        ELSE [count |-> st.count + 1, err |-> st.err, attempted |-> Append(st.attempted, pid)]

RECURSIVE KillLoopAbort(_, _, _, _)
\* KillLoop returning at the first failure.
KillLoopAbort(pids, i, outcome, st) ==
  IF i > Len(pids) \/ st.err # NilErr THEN st
  ELSE KillLoopAbort(pids, i + 1, outcome, KillStep(st, pids[i], outcome))

RECURSIVE KillLoop(_, _, _, _)
\* for _, pid := range pids
KillLoop(pids, i, outcome, st) ==
  IF i > Len(pids) THEN st
  ELSE KillLoop(pids, i + 1, outcome, KillStep(st, pids[i], outcome))

\* The closure of killPending run to its end: killResultMsg{count, err}
\* (attempted is the log of the pids KillProcess was called with).
RunKill(pids, outcome) ==
  KillLoop(pids, 1, outcome, [count |-> 0, err |-> NilErr, attempted |-> <<>>])

(***************************************************************************)
(* View derivation: updateTable                                            *)
(***************************************************************************)
SortPID == 0

SortName == 1

SortPorts == 2

SortCPU == 3

SortMem == 4

\* Keep matching the name as it is spelled, not lower-cased.
KeepCaseSensitive(p, activeTab, filterPorts, search) ==
  /\ ~((activeTab = 0 /\ p.Type # UserProcess) \/ (activeTab = 1 /\ p.Type # SystemProcess))
  /\ ~(filterPorts /\ Len(p.Connections) = 0)
  /\ \/ search = <<>>
     \/ Contains(p.Name, search)
     \/ \E i \in 1..Len(p.Connections) : Contains(FormatDec(p.Connections[i].Port), search)

\* The filter loop of updateTable: tab, ports-only and search.
Keep(p, activeTab, filterPorts, search) ==
  /\ ~((activeTab = 0 /\ p.Type # UserProcess) \/ (activeTab = 1 /\ p.Type # SystemProcess))
  /\ ~(filterPorts /\ Len(p.Connections) = 0)
  /\ \/ search = <<>>
     \/ Contains(ToLower(p.Name), search)
     \/ \E i \in 1..Len(p.Connections) : Contains(FormatDec(p.Connections[i].Port), search)

FilterProcesses(processes, activeTab, filterPorts, value) ==
  LET search == ToLower(value)
  IN  SelectSeq(processes, LAMBDA p : Keep(p, activeTab, filterPorts, search))

\* The comparison of the switch on m.sortBy, before sortDesc is applied.
BaseLess(sortBy, a, b) ==
  CASE sortBy = SortPID   -> a.PID < b.PID
    [] sortBy = SortName  -> StrLess(a.Name, b.Name)
    [] sortBy = SortPorts ->
         IF Len(a.Connections) = Len(b.Connections)
           THEN a.PID < b.PID
           ELSE Len(a.Connections) < Len(b.Connections)
    [] sortBy = SortCPU   -> a.CPUPercent < b.CPUPercent
    [] sortBy = SortMem   -> a.MemoryUsage < b.MemoryUsage
    [] OTHER              -> a.PID < b.PID

\* The less function handed to sort.Slice.
SortLess(sortBy, sortDesc, a, b) ==
  IF sortDesc THEN ~BaseLess(sortBy, a, b) ELSE BaseLess(sortBy, a, b)

Swap(s, i, j) == [s EXCEPT ![i] = s[j], ![j] = s[i]]

RECURSIVE SiftBack(_, _, _, _)
\* for j := i; j > a && less(j, j-1); j-- { swap(j, j-1) }
SiftBack(s, j, sortBy, sortDesc) ==
  IF j > 1 /\ SortLess(sortBy, sortDesc, s[j], s[j - 1])
    THEN SiftBack(Swap(s, j, j - 1), j - 1, sortBy, sortDesc)
    ELSE s

RECURSIVE InsertionSort(_, _, _, _)
InsertionSort(s, i, sortBy, sortDesc) ==
  IF i > Len(s) THEN s
  ELSE InsertionSort(SiftBack(s, i, sortBy, sortDesc), i + 1, sortBy, sortDesc)

\* sort.Slice(filtered, less): for slices of at most 12 elements Go's sort is
\* this insertion sort (the model's snapshots are far shorter).
SortSlice(filtered, sortBy, sortDesc) == InsertionSort(filtered, 2, sortBy, sortDesc)

\* The port labels of a row: LISTEN ports first, then the others.
PortLabels(conns) ==
  LET listen == SelectSeq(conns, LAMBDA c : c.Status = "LISTEN")
      other  == SelectSeq(conns, LAMBDA c : c.Status # "LISTEN")
  IN  [i \in 1..Len(listen) |-> FormatDec(listen[i].Port) \o << "(", "L", ")" >>]
      \o [i \in 1..Len(other) |-> FormatDec(other[i].Port) \o << "(", "E", ")" >>]

\* One table.Row: the check mark, the pid as text, the name, the port labels
\* (column truncation, CPU and memory formatting are presentation only).
RowOf(p, selectedPids) ==
  << IF p.PID \in selectedPids THEN "x" ELSE " ", FormatDec(p.PID), p.Name,
     PortLabels(p.Connections) >>

\* The rows updateTable hands to m.table.SetRows.
DeriveRows(processes, selectedPids, activeTab, filterPorts, sortBy, sortDesc, value) ==
  LET sorted == SortSlice(FilterProcesses(processes, activeTab, filterPorts, value),
                          sortBy, sortDesc)
  IN  [i \in 1..Len(sorted) |-> RowOf(sorted[i], selectedPids)]

\* bubbles/table clamp(v, low, high) = min(max(v, low), high)
Clamp(v, low, high) ==
  LET m == IF v > low THEN v ELSE low
  IN  IF m < high THEN m ELSE high

\* The cursor after updateTable: SetRows, then SetCursor(len(rows)-1) when the
\* old index is past the end.
CursorAfter(currIdx, rows) ==
  IF currIdx >= Len(rows) THEN Clamp(Len(rows) - 1, 0, Len(rows) - 1) ELSE currIdx

\* m.table.SelectedRow(): nil (<<>>) when the cursor is off the rows.
SelectedRow(rows, cursor) ==
  IF cursor < 0 \/ cursor >= Len(rows) THEN <<>> ELSE rows[cursor + 1]

(***************************************************************************)
(* The session: model, its helpers and Update                              *)
(***************************************************************************)
VARIABLES
  m,          \* the model struct Bubble Tea hands to Update
  scans,      \* the scanProcessesCmd batches in flight, in the order started
  ticks,      \* the pending tickCmd timers
  kills,      \* the killPending commands in flight (the pids of each)
  timers,     \* the pending waitNotificationCmd timers
  quit,       \* tea.Quit was returned: the program has ended
  callArgs,   \* the arguments of a function applied on its own
  callResult  \* its result, once applied

vars == << m, scans, ticks, kills, timers, quit, callArgs, callResult >>

\* m.notification: the text's kind, its %d and its %v.
Notification(kind, n, what) == [kind |-> kind, n |-> n, what |-> what]

NoNotification == Notification("", 0, "")

\* textInput.CharLimit
CharLimit == 156

\* table.WithHeight(10): the rows a page-down moves over.
TableHeight == 10

\* initialModel()
initialModel ==
  [ rows         |-> <<>>,
    cursor       |-> 0,
    processes    |-> <<>>,
    selectedPids |-> {},
    activeTab    |-> 0,
    err          |-> NoErr,
    loading      |-> TRUE,
    filterPorts  |-> TRUE,
    sortBy       |-> SortPorts,
    sortDesc     |-> TRUE,
    value        |-> <<>>,
    searching    |-> FALSE,
    confirming   |-> FALSE,
    pendingPids  |-> <<>>,
    notification |-> NoNotification ]

\* The commands Update returns.
ScanProcessesCmd == [cmd |-> "scanProcesses", pids |-> <<>>]

TickCmd == [cmd |-> "tick", pids |-> <<>>]

WaitNotificationCmd == [cmd |-> "waitNotification", pids |-> <<>>]

QuitCmd == [cmd |-> "quit", pids |-> <<>>]

\* killPending: the command closes over the pids pending at the call.
killPending(mm) == [cmd |-> "kill", pids |-> mm.pendingPids]

\* updateTable dropping from the selection the pids it does not show.
updateTablePruning(mm) ==
  LET newRows == DeriveRows(mm.processes, mm.selectedPids, mm.activeTab, mm.filterPorts,
                            mm.sortBy, mm.sortDesc, mm.value)
  IN  [mm EXCEPT !.rows = newRows, !.cursor = CursorAfter(mm.cursor, newRows),
                 !.selectedPids = {p \in @ : \E i \in 1..Len(newRows) : ParsePid(newRows[i][2]) = p}]

\* updateTable
updateTable(mm) ==
  LET newRows == DeriveRows(mm.processes, mm.selectedPids, mm.activeTab, mm.filterPorts,
                            mm.sortBy, mm.sortDesc, mm.value)
  IN  [mm EXCEPT !.rows = newRows, !.cursor = CursorAfter(mm.cursor, newRows)]

\* toggleSelection
toggleSelection(mm) ==
  LET row == SelectedRow(mm.rows, mm.cursor)
      pid == ParsePid(row[2])
  IN  IF row = <<>> THEN mm
      ELSE IF pid \in mm.selectedPids
        THEN [mm EXCEPT !.selectedPids = @ \ {pid}]
        ELSE [mm EXCEPT !.selectedPids = @ \cup {pid}]

\* The orders in which a range over the map selectedPids may yield its keys.
MapOrders(S) ==
  {o \in [1..Cardinality(S) -> S] : \A i, j \in 1..Cardinality(S) : i # j => o[i] # o[j]}

\* startKillProcess taking the row under the cursor whatever is selected.
startKillProcessCursorOnly(mm, order) ==
  LET row == SelectedRow(mm.rows, mm.cursor)
  IN  IF row = <<>>
        THEN [mm EXCEPT !.notification = Notification("No process selected.", 0, "")]
        ELSE [mm EXCEPT !.pendingPids = << ParsePid(row[2]) >>, !.confirming = TRUE]

\* startKillProcess taking only the selected pids that have a row.
startKillProcessShownOnly(mm, order) ==
  LET row == SelectedRow(mm.rows, mm.cursor)
      shown == {ParsePid(mm.rows[i][2]) : i \in 1..Len(mm.rows)}
      victims == IF mm.selectedPids # {} THEN SelectSeq(order, LAMBDA p : p \in shown)
                 ELSE IF row # <<>> THEN << ParsePid(row[2]) >>
                 ELSE <<>>
  IN  IF Len(victims) = 0
        THEN [mm EXCEPT !.notification = Notification("No process selected.", 0, "")]
        ELSE [mm EXCEPT !.pendingPids = victims, !.confirming = TRUE]

\* startKillProcess; order is the order the range over selectedPids took.
startKillProcess(mm, order) ==
  LET row == SelectedRow(mm.rows, mm.cursor)
      victims == IF mm.selectedPids # {} THEN order
                 ELSE IF row # <<>> THEN << ParsePid(row[2]) >>
                 ELSE <<>>
  IN  IF Len(victims) = 0
        THEN [mm EXCEPT !.notification = Notification("No process selected.", 0, "")]
        ELSE [mm EXCEPT !.pendingPids = victims, !.confirming = TRUE]

\* m.table.Update(msg) for a key: the default key map of bubbles/table moves
\* the cursor on up/k, down/j and f/pgdown; other messages leave it alone.
TableUpdate(mm, key) ==
  LET last == Len(mm.rows) - 1
  IN  CASE key \in {"up", "k"}     -> [mm EXCEPT !.cursor = Clamp(mm.cursor - 1, 0, last)]
        [] key \in {"down", "j"}   -> [mm EXCEPT !.cursor = Clamp(mm.cursor + 1, 0, last)]
        [] key \in {"f", "pgdown"} -> [mm EXCEPT !.cursor = Clamp(mm.cursor + TableHeight, 0, last)]
        [] OTHER                   -> mm

\* textInput.Update(msg): a rune is appended (up to CharLimit), backspace
\* deletes the last one.
TextInputUpdate(val, key) ==
  IF key = "backspace" THEN (IF val = <<>> THEN val ELSE SubSeq(val, 1, Len(val) - 1))
  ELSE IF key \in Chars /\ Len(val) < CharLimit
    THEN Append(val, key)
  ELSE val

Return(mm, cmds) == [m |-> mm, cmds |-> cmds]

\* strings.ToLower(msg.String()) for the keys of the confirmation prompt
LowerKey(key) == IF key = "Y" THEN "y" ELSE IF key = "N" THEN "n" ELSE key

\* UpdateSearching whose Escape discards the text typed so far.
UpdateSearchingEscClears(mm, key) ==
  IF key = "enter"
    THEN Return([mm EXCEPT !.searching = FALSE], <<>>)
  ELSE IF key = "esc"
    THEN Return(updateTable([mm EXCEPT !.searching = FALSE, !.value = <<>>]), <<>>)
    ELSE Return(updateTable([mm EXCEPT !.value = TextInputUpdate(mm.value, key)]), <<>>)

\* Update, case tea.KeyMsg, if m.searching
UpdateSearching(mm, key) ==
  IF key \in {"enter", "esc"}
    THEN Return([mm EXCEPT !.searching = FALSE], <<>>)
    ELSE Return(updateTable([mm EXCEPT !.value = TextInputUpdate(mm.value, key)]), <<>>)

\* The tickMsg case re-arming the timer only: no collection is started while a
\* confirmation is pending.
UpdateTickIdle(mm) ==
  IF mm.confirming THEN Return(mm, << TickCmd >>)
  ELSE Return(mm, << ScanProcessesCmd, TickCmd >>)

\* The scanMsg case keeping the records of the previous snapshot that the new
\* one lacks.
UpdateScanMerging(mm, msg) ==
  LET kept == SelectSeq(mm.processes,
                        LAMBDA p : \A i \in 1..Len(msg.procs) : msg.procs[i].PID # p.PID)
  IN  Return(updateTable([mm EXCEPT !.processes = msg.procs \o kept, !.loading = FALSE]), <<>>)

\* Update, case scanMsg
UpdateScan(mm, msg) ==
  Return(updateTable([mm EXCEPT !.processes = msg.procs, !.loading = FALSE]), <<>>)

\* Update, case tickMsg
UpdateTick(mm) == Return(mm, << ScanProcessesCmd, TickCmd >>)

\* UpdateConfirming with the selection toggle honoured while the confirmation
\* is open.
UpdateConfirmingToggle(mm, key) ==
  CASE LowerKey(key) = "y" ->
         Return([mm EXCEPT !.confirming = FALSE,
                           !.notification = Notification("Killing", Len(mm.pendingPids), "")],
                << killPending(mm), WaitNotificationCmd >>)
    [] LowerKey(key) \in {"n", "esc"} ->
         Return([mm EXCEPT !.confirming = FALSE,
                           !.pendingPids = <<>>,
                           !.notification = Notification("Cancelled.", 0, "")],
                << WaitNotificationCmd >>)
    [] key = " " -> Return(updateTable(toggleSelection(mm)), <<>>)
    [] OTHER -> Return(mm, <<>>)

\* UpdateConfirming with the search key opening the search box while the
\* confirmation is open.
UpdateConfirmingSearch(mm, key) ==
  CASE LowerKey(key) = "y" ->
         Return([mm EXCEPT !.confirming = FALSE,
                           !.notification = Notification("Killing", Len(mm.pendingPids), "")],
                << killPending(mm), WaitNotificationCmd >>)
    [] LowerKey(key) \in {"n", "esc"} ->
         Return([mm EXCEPT !.confirming = FALSE,
                           !.pendingPids = <<>>,
                           !.notification = Notification("Cancelled.", 0, "")],
                << WaitNotificationCmd >>)
    [] key = "/" -> Return([mm EXCEPT !.searching = TRUE], <<>>)
    [] OTHER -> Return(mm, <<>>)

\* UpdateConfirming whose cancel drops the selection with the pending pids.
UpdateConfirmingCancelClears(mm, key) ==
  CASE LowerKey(key) = "y" ->
         Return([mm EXCEPT !.confirming = FALSE,
                           !.notification = Notification("Killing", Len(mm.pendingPids), "")],
                << killPending(mm), WaitNotificationCmd >>)
    [] LowerKey(key) \in {"n", "esc"} ->
         Return([mm EXCEPT !.confirming = FALSE,
                           !.pendingPids = <<>>,
                           !.selectedPids = {},
                           !.notification = Notification("Cancelled.", 0, "")],
                << WaitNotificationCmd >>)
    [] OTHER -> Return(mm, <<>>)

\* Update, case tea.KeyMsg, if m.confirming
UpdateConfirming(mm, key) ==
  CASE LowerKey(key) = "y" ->
         Return([mm EXCEPT !.confirming = FALSE,
                           !.notification = Notification("Killing", Len(mm.pendingPids), "")],
                << killPending(mm), WaitNotificationCmd >>)
    [] LowerKey(key) \in {"n", "esc"} ->
         Return([mm EXCEPT !.confirming = FALSE,
                           !.pendingPids = <<>>,
                           !.notification = Notification("Cancelled.", 0, "")],
                << WaitNotificationCmd >>)
    [] OTHER -> Return(mm, <<>>)

\* UpdateNormal whose kill key terminates the selection at once, with no
\* confirmation.
UpdateNormalKillNow(mm, key, order) ==
  CASE key \in {"q", "ctrl+c"} -> Return(mm, << QuitCmd >>)
    [] key = "tab" ->
         Return(TableUpdate(updateTable([mm EXCEPT !.activeTab = (mm.activeTab + 1) % 2]), key), <<>>)
    [] key = " " -> Return(updateTable(toggleSelection(mm)), <<>>)
    [] key = "k" ->
         IF mm.selectedPids # {}
           THEN Return([mm EXCEPT !.selectedPids = {}], << [cmd |-> "kill", pids |-> order] >>)
           ELSE Return(TableUpdate(mm, key), <<>>)
    [] key = "f" ->
         Return(TableUpdate(updateTable([mm EXCEPT !.filterPorts = ~mm.filterPorts]), key), <<>>)
    [] key = "s" ->
         Return(TableUpdate(updateTable([mm EXCEPT !.sortBy = (mm.sortBy + 1) % 5]), key), <<>>)
    [] key = "o" ->
         Return(TableUpdate(updateTable([mm EXCEPT !.sortDesc = ~mm.sortDesc]), key), <<>>)
    [] key = "/" -> Return([mm EXCEPT !.searching = TRUE], <<>>)
    [] OTHER -> Return(TableUpdate(mm, key), <<>>)

\* Update, case tea.KeyMsg, the switch on msg.String()
UpdateNormal(mm, key, order) ==
  CASE key \in {"q", "ctrl+c"} -> Return(mm, << QuitCmd >>)
    [] key = "tab" ->
         Return(TableUpdate(updateTable([mm EXCEPT !.activeTab = (mm.activeTab + 1) % 2]), key), <<>>)
    [] key = " " -> Return(updateTable(toggleSelection(mm)), <<>>)
    [] key = "k" -> Return(TableUpdate(startKillProcess(mm, order), key), <<>>)
    [] key = "f" ->
         Return(TableUpdate(updateTable([mm EXCEPT !.filterPorts = ~mm.filterPorts]), key), <<>>)
    [] key = "s" ->
         Return(TableUpdate(updateTable([mm EXCEPT !.sortBy = (mm.sortBy + 1) % 5]), key), <<>>)
    [] key = "o" ->
         Return(TableUpdate(updateTable([mm EXCEPT !.sortDesc = ~mm.sortDesc]), key), <<>>)
    [] key = "/" -> Return([mm EXCEPT !.searching = TRUE], <<>>)
    [] OTHER -> Return(TableUpdate(mm, key), <<>>)

\* UpdateKillResult clearing the selection whatever the result.
UpdateKillResultClearing(mm, msg) ==
  LET mm2 == IF msg.err # NilErr
               THEN [mm EXCEPT !.notification = Notification("Error", 0, msg.err.what),
                               !.selectedPids = {}]
               ELSE [mm EXCEPT !.notification = Notification("Successfully killed", msg.count, ""),
                               !.selectedPids = {}]
  IN  Return(mm2, << ScanProcessesCmd, WaitNotificationCmd >>)

\* The killResultMsg case collecting again only after a clean termination.
UpdateKillResultRescanOnSuccess(mm, msg) ==
  IF msg.err # NilErr
    THEN Return([mm EXCEPT !.notification = Notification("Error", 0, msg.err.what)],
                << WaitNotificationCmd >>)
    ELSE Return([mm EXCEPT !.notification = Notification("Successfully killed", msg.count, ""),
                           !.selectedPids = {}],
                << ScanProcessesCmd, WaitNotificationCmd >>)

\* Update, case killResultMsg
UpdateKillResult(mm, msg) ==
  LET mm2 == IF msg.err # NilErr
               THEN [mm EXCEPT !.notification = Notification("Error", 0, msg.err.what)]
               ELSE [mm EXCEPT !.notification = Notification("Successfully killed", msg.count, ""),
                               !.selectedPids = {}]
  IN  Return(mm2, << ScanProcessesCmd, WaitNotificationCmd >>)

\* model.Update (the spinner, the window size and the styles are presentation)
Update(mm, msg, order) ==
  CASE msg.type = "key" ->
         IF mm.searching THEN UpdateSearching(mm, msg.key)
         ELSE IF mm.confirming THEN UpdateConfirming(mm, msg.key)
         ELSE UpdateNormal(mm, msg.key, order)
    [] msg.type = "scanStart" -> Return([mm EXCEPT !.loading = TRUE], <<>>)
    [] msg.type = "scan" -> UpdateScan(mm, msg)
    [] msg.type = "tick" -> UpdateTick(mm)
    [] msg.type = "killResult" -> UpdateKillResult(mm, msg)
    [] msg.type = "notificationTimeout" -> Return([mm EXCEPT !.notification = NoNotification], <<>>)
    [] msg.type = "err" -> Return([mm EXCEPT !.err = msg.err], <<>>)

(***************************************************************************)
(* The environment: the operating system's answers and the operator's keys *)
(***************************************************************************)
CurrentUser == "me"

Handle(pid, name, username, cpu, mem) ==
  [ Pid |-> pid, Name |-> Ok(name), Username |-> Ok(username), Cwd |-> Ok(<< "/" >>),
    Cmdline |-> Ok(name), Percent |-> Ok(cpu), MemoryInfo |-> Ok(mem) ]

ProcApi == Handle(100, << "a", "p", "i" >>, "me", 3, 20)

ProcWeb == Handle(200, << "W", "e", "b" >>, "me", 3, 10)

ProcDb == Handle(7, << "d", "b" >>, "root", 0, 30)

Conn(pid, port, status) == [Pid |-> pid, Port |-> port, Status |-> status]

OsState(procs, conns) ==
  [ userErr |-> FALSE, currentUser |-> CurrentUser, procsErr |-> FALSE, connsErr |-> FALSE,
    procs |-> procs, conns |-> conns ]

\* All three processes; Web listens on 8080, db holds a connection from port 80.
OsAll == OsState(<< ProcApi, ProcWeb, ProcDb >>,
                 << Conn(200, 8080, "LISTEN"), Conn(7, 80, "ESTABLISHED") >>)

\* Web has exited.
OsNoWeb == OsState(<< ProcDb, ProcApi >>, << Conn(7, 80, "ESTABLISHED") >>)

\* process.Processes() fails.
OsBroken == [OsState(<<>>, <<>>) EXCEPT !.procsErr = TRUE]

\* The states of the OS a collection of the session may meet.
OsStates == {OsAll, OsNoWeb, OsBroken}

\* What scanner.ScanProcesses returns in those states.
ScanResults == {ScanProcesses(os) : os \in OsStates}

KillOutcomes == {"killed", "gone", "denied"}

\* The text the search box may hold (what the operator types is cut to these).
SearchValues == {<<>>, << "8" >>, << "W" >>, << "y" >>}

\* The keys the operator presses.
Keys ==
  {"q", "tab", " ", "k", "f", "s", "o", "/", "up", "down", "y", "Y", "n", "esc", "enter",
   "backspace", "8", "W"}

\* Bounds on the commands in flight.
MaxScans == 2

MaxKills == 1

MaxTimers == 2

(***************************************************************************)
(* The Bubble Tea runtime: one message at a time goes through Update, and  *)
(* the commands it returns run in the background                           *)
(***************************************************************************)
Count(cmds, c) == Cardinality({i \in 1..Len(cmds) : cmds[i].cmd = c})

\* scanProcessesCmd(): a batch of two commands, the scanStartMsg and the scan.
\* scans lists the batches in the order they were started; stale records
\* that a batch started later has already replaced the snapshot.
NewScan == [start |-> TRUE, run |-> TRUE, stale |-> FALSE]

RemoveAt(s, i) == SubSeq(s, 1, i - 1) \o SubSeq(s, i + 1, Len(s))

\* One command of a scanProcessesCmd batch (start or run) has delivered its message.
ScanPartDone(i, part) ==
  LET left == [scans[i] EXCEPT ![part] = FALSE]
  IN  IF left.start \/ left.run THEN [scans EXCEPT ![i] = left] ELSE RemoveAt(scans, i)

\* The scan of batch i has delivered a scanMsg: the batches started before it
\* that are still scanning are now behind the snapshot.
ScanApplied(i) ==
  LET marked == [j \in 1..Len(scans) |->
                   IF j < i /\ scans[j].run THEN [scans[j] EXCEPT !.stale = TRUE] ELSE scans[j]]
      left == [scans[i] EXCEPT !.run = FALSE]
  IN  IF left.start THEN [marked EXCEPT ![i] = left] ELSE RemoveAt(marked, i)

\* The runtime takes what Update returned: the new model r.m, and the batch
\* of commands r.cmds, which it starts.  A termination command, when it
\* returns, starts one collection and one notification timer: they count
\* against MaxScans and MaxTimers from the moment the command is started, so
\* that a command that was started can always return.
Started(r, scansLeft, ticksLeft, killsLeft, timersLeft) ==
  LET newScans == [i \in 1..Count(r.cmds, "scanProcesses") |-> NewScan]
      killCmds == SelectSeq(r.cmds, LAMBDA c : c.cmd = "kill")
      newKills == [i \in 1..Len(killCmds) |-> killCmds[i].pids]
  IN  /\ ~quit
      /\ Len(scansLeft) + Len(newScans) + Len(killsLeft) + Len(newKills) <= MaxScans
      /\ Len(killsLeft) + Len(newKills) <= MaxKills
      /\ timersLeft + Count(r.cmds, "waitNotification") + Len(killsLeft) + Len(newKills) <= MaxTimers
      /\ m' = r.m
      /\ scans' = scansLeft \o newScans
      /\ ticks' = ticksLeft + Count(r.cmds, "tick")
      /\ kills' = killsLeft \o newKills
      /\ timers' = timersLeft + Count(r.cmds, "waitNotification")
      /\ quit' = (Count(r.cmds, "quit") > 0)
      /\ UNCHANGED << callArgs, callResult >>

\* Update handles msg; the commands it returns are started.
Dispatch(msg, order, scansLeft, ticksLeft, killsLeft, timersLeft) ==
  Started(Update(m, msg, order), scansLeft, ticksLeft, killsLeft, timersLeft)

\* The operator presses a key; what the search box holds stays within values.
KeyWithin(k, values) ==
  /\ m.searching => TextInputUpdate(m.value, k) \in values
  /\ \E order \in (IF k = "k" THEN MapOrders(m.selectedPids) ELSE {<<>>}) :
       Dispatch([type |-> "key", key |-> k], order, scans, ticks, kills, timers)

\* The operator presses a key.
Key(k) == KeyWithin(k, SearchValues)

\* The 3 s timer of tickCmd fires.
Tick ==
  /\ ticks > 0
  /\ Dispatch([type |-> "tick"], <<>>, scans, ticks - 1, kills, timers)

\* The first command of a scanProcessesCmd batch delivers scanStartMsg.
ScanStart(i) ==
  /\ scans[i].start
  /\ Dispatch([type |-> "scanStart"], <<>>, ScanPartDone(i, "start"), ticks, kills, timers)

\* The second command of a scanProcessesCmd batch ran scanner.ScanProcesses,
\* which returned res.
Scan(i, res) ==
  LET msg == IF res.err # NoErr THEN [type |-> "err", err |-> res.err]
             ELSE [type |-> "scan", procs |-> res.procs]
  IN  /\ scans[i].run
      /\ Dispatch(msg, <<>>, IF res.err = NoErr THEN ScanApplied(i) ELSE ScanPartDone(i, "run"),
                  ticks, kills, timers)

\* A killPending command ran over its pids.
Kill(i, outcome) ==
  LET res == RunKill(kills[i], outcome)
  IN  Dispatch([type |-> "killResult", count |-> res.count, err |-> res.err], <<>>,
               scans, ticks, RemoveAt(kills, i), timers)

\* The 3 s timer of waitNotificationCmd fires.
NotificationTimeout ==
  /\ timers > 0
  /\ Dispatch([type |-> "notificationTimeout"], <<>>, scans, ticks, kills, timers - 1)

Range(s) == {s[i] : i \in 1..Len(s)}

\* The program after tea.NewProgram(initialModel()) has run Init():
\* scanProcessesCmd() and tickCmd() are started.
InitSession ==
  /\ m = initialModel
  /\ scans = << NewScan >>
  /\ ticks = 1
  /\ kills = <<>>
  /\ timers = 0
  /\ quit = FALSE

Init ==
  /\ InitSession
  /\ callArgs = <<>>
  /\ callResult = <<>>

\* The steps of the program when the operator's keys are drawn from keys and
\* a collection returns one of results.
NextWith(keys, results) ==
  \/ \E k \in keys : Key(k)
  \/ Tick
  \/ \E i \in 1..Len(scans) : ScanStart(i)
  \/ \E i \in 1..Len(scans), res \in results : Scan(i, res)
  \/ \E i \in 1..Len(kills) : \E outcome \in [Range(kills[i]) -> KillOutcomes] : Kill(i, outcome)
  \/ NotificationTimeout

\* The same when no key of keys starts or cancels a kill: no kill is ever in
\* flight and no notification timer is ever pending.
NextWithoutKill(keys, results) ==
  \/ \E k \in keys : Key(k)
  \/ Tick
  \/ \E i \in 1..Len(scans) : ScanStart(i)
  \/ \E i \in 1..Len(scans), res \in results : Scan(i, res)

Next == NextWith(Keys, ScanResults)

\* The whole program.
Spec == Init /\ [][Next]_vars

(***************************************************************************)
(* Scenarios: the program with the operator's keys cut to those of one     *)
(* workflow, which keeps each state space small enough to explore fully    *)
(***************************************************************************)
\* The refresh loop: the operator only moves between Normal, Searching and
\* ConfirmingKill (and may kill the process under the cursor), or quits;
\* collections succeed or fail.
RefreshKeys == {"q", "/", "enter", "k", "n", "y", "W"}

NextRefresh == NextWith(RefreshKeys, ScanResults)

SpecRefresh == Init /\ [][NextRefresh]_vars

\* The timers fire and the collector returns.
FairRefresh ==
  /\ SpecRefresh
  /\ WF_vars(Tick)
  /\ WF_vars(\E i \in 1..Len(scans) : ScanStart(i))
  /\ WF_vars(\E i \in 1..Len(scans), res \in ScanResults : Scan(i, res))

\* The kill workflow: select, initiate, confirm or cancel, with the search
\* box and the ports-only filter at hand; collections succeed.
KillKeys == {" ", "k", "y", "n", "f", "down", "/", "enter"}

KillResults == {ScanProcesses(OsAll)}

NextKill == NextWith(KillKeys, KillResults)

SpecKill == Init /\ [][NextKill]_vars

\* The kill workflow without the search box.
ConfirmKeys == {" ", "k", "y", "n", "f", "down"}

NextConfirm == NextWith(ConfirmKeys, KillResults)

SpecConfirm == Init /\ [][NextConfirm]_vars

\* The termination commands and the collections return.
FairKill ==
  /\ SpecConfirm
  /\ WF_vars(\E i \in 1..Len(kills) : \E outcome \in [Range(kills[i]) -> KillOutcomes] : Kill(i, outcome))
  /\ WF_vars(\E i \in 1..Len(scans), res \in ScanResults : Scan(i, res))

\* The view: group, filter, sort, search and selection over changing snapshots.
ViewKeys == {"tab", " ", "f", "s", "o", "/", "enter", "W"}

ViewResults == {ScanProcesses(OsAll), ScanProcesses(OsNoWeb)}

NextView == NextWithoutKill(ViewKeys, ViewResults)

SpecView == Init /\ [][NextView]_vars

\* The input routing: in Normal the operator moves the cursor, selects,
\* toggles the ports-only filter, opens the search box or asks for a kill; every hot key is pressed in Searching (where it is
\* typed into the search box) and in ConfirmingKill, which is left by
\* cancelling; no kill is confirmed, so none is ever in flight.
RoutingKeys == {"tab", " ", "k", "f", "s", "o", "/", "enter", "esc", "n", "W", "down"}

NormalRoutingKeys == {" ", "k", "/", "f", "down"}

RoutingValues == {<<>>, << " " >>, << "k" >>, << "f" >>, << "s" >>, << "o" >>, << "W" >>}

RoutingResults == {ScanProcesses(OsAll), ScanProcesses(OsNoWeb)}

NextRouting ==
  \/ \E k \in RoutingKeys :
       /\ m.searching \/ m.confirming \/ k \in NormalRoutingKeys
       /\ KeyWithin(k, RoutingValues)
  \/ Tick
  \/ \E i \in 1..Len(scans) : ScanStart(i)
  \/ \E i \in 1..Len(scans), res \in RoutingResults : Scan(i, res)
  \/ NotificationTimeout

SpecRouting == Init /\ [][NextRouting]_vars

(***************************************************************************)
(* The Process Terminator applied on its own: killPending's command over   *)
(* every list of targets and every outcome of the OS                       *)
(***************************************************************************)
PidUniverse == {7, 100, 200}

\* The longest list of kill targets.
MaxTargets == 3

\* The lists a range over selectedPids can produce: no pid twice.
TargetLists ==
  UNION {MapOrders(S) : S \in {T \in SUBSET PidUniverse : Cardinality(T) <= MaxTargets}}

KillCalls ==
  {[pids |-> pids, outcome |-> o] : pids \in TargetLists, o \in [PidUniverse -> KillOutcomes]}

InitTerminate ==
  /\ InitSession
  /\ callArgs \in KillCalls
  /\ callResult = <<>>

\* The command runs to its end.
CallKill ==
  /\ callResult = <<>>
  /\ callResult' = << RunKill(callArgs.pids, callArgs.outcome) >>
  /\ UNCHANGED << m, scans, ticks, kills, timers, quit, callArgs >>

SpecTerminate == InitTerminate /\ [][CallKill]_vars

(***************************************************************************)
(* View derivation applied on its own: updateTable over every short        *)
(* snapshot, sort key and sort direction                                   *)
(***************************************************************************)
\* A ProcessInfo of the current user with n connections.
Info(pid, name, n, load) ==
  [ PID         |-> pid,
    Name        |-> name,
    User        |-> CurrentUser,
    Type        |-> UserProcess,
    Connections |-> [i \in 1..n |-> [Port |-> 80 + i, Status |-> "LISTEN"]],
    Cwd         |-> <<>>,
    Command     |-> <<>>,
    AppType     |-> "Binary",
    CPUPercent  |-> load,
    MemoryUsage |-> load ]

SortPids == {2, 5, 9}

\* The records a pid may have: with or without a port, and two processes may
\* share their name, CPU and memory.
InfosOf(pid) ==
  {Info(pid, << "a" >>, n, 0) : n \in 0..1} \cup {Info(pid, << "b" >>, n, 1) : n \in 0..1}

\* The snapshots: up to three processes, in any enumeration order.
SortSnapshots ==
  UNION {{ps \in [1..Len(o) -> UNION {InfosOf(pid) : pid \in SortPids}] :
            \A i \in 1..Len(o) : ps[i].PID = o[i]} :
         o \in UNION {MapOrders(S) : S \in SUBSET SortPids}}

SortCalls ==
  {[initialModel EXCEPT !.processes = ps, !.filterPorts = FALSE, !.sortBy = sb, !.sortDesc = sd] :
     ps \in SortSnapshots, sb \in SortPID..SortMem, sd \in BOOLEAN}

InitSort ==
  /\ InitSession
  /\ callArgs \in SortCalls
  /\ callResult = <<>>

\* updateTable runs on the model.
CallUpdateTable ==
  /\ callResult = <<>>
  /\ callResult' = << updateTable(callArgs) >>
  /\ UNCHANGED << m, scans, ticks, kills, timers, quit, callArgs >>

SpecSort == InitSort /\ [][CallUpdateTable]_vars

(***************************************************************************)
(* Claims about the Process Terminator (SpecTerminate)                     *)
(***************************************************************************)
\* The positions of the targets whose termination fails.
FailedAt(pids, outcome) == {i \in 1..Len(pids) : outcome[pids[i]] # "killed"}

MaxOf(S) == CHOOSE x \in S : \A y \in S : y <= x

MinOf(S) == CHOOSE x \in S : \A y \in S : x <= y

\* C3, as the spec states it: the error carried in the termination result is
\* the error of the first pid, in attempt order, whose termination failed, and
\* is absent iff no termination failed.
C3_FirstErrorSurfaced ==
  Len(callResult) = 1 =>
    /\ (callResult[1].err = NilErr) <=> (FailedAt(callArgs.pids, callArgs.outcome) = {})
    /\ FailedAt(callArgs.pids, callArgs.outcome) # {} =>
         callResult[1].err =
           KillProcess(callArgs.pids[MinOf(FailedAt(callArgs.pids, callArgs.outcome))],
                       callArgs.outcome)

\* C3, amended: the error carried in the termination result is the error of
\* the last pid, in attempt order, whose termination failed, and is absent iff
\* no termination failed.
C3_LastErrorSurfaced ==
  Len(callResult) = 1 =>
    /\ (callResult[1].err = NilErr) <=> (FailedAt(callArgs.pids, callArgs.outcome) = {})
    /\ FailedAt(callArgs.pids, callArgs.outcome) # {} =>
         callResult[1].err =
           KillProcess(callArgs.pids[MaxOf(FailedAt(callArgs.pids, callArgs.outcome))],
                       callArgs.outcome)

\* C3's case: the command has run over targets of which two failed, for
\* different reasons, and one was killed.
C3_TwoFailuresRan ==
  /\ Len(callResult) = 1
  /\ Cardinality(FailedAt(callArgs.pids, callArgs.outcome)) = 2
  /\ callArgs.outcome[callArgs.pids[1]] = "gone"
  /\ callArgs.outcome[callArgs.pids[2]] = "denied"
  /\ Len(callArgs.pids) = 3

\* C4: every pid of the list is attempted exactly once, in order, whatever
\* failed before it; the success count is the number of pids whose termination
\* succeeded; a pid that no longer exists is attempted and counts as a failure.
C4_EveryPidAttempted ==
  Len(callResult) = 1 =>
    /\ callResult[1].attempted = callArgs.pids
    /\ callResult[1].count =
         Cardinality({i \in 1..Len(callArgs.pids) : callArgs.outcome[callArgs.pids[i]] = "killed"})
    /\ (\E i \in 1..Len(callArgs.pids) : callArgs.outcome[callArgs.pids[i]] = "gone") =>
         /\ callResult[1].err # NilErr
         /\ callResult[1].count < Len(callArgs.pids)

\* C4's case: the first target no longer exists and the targets after it are
\* killed.
C4_KilledAfterGone ==
  /\ Len(callResult) = 1
  /\ Len(callArgs.pids) = 3
  /\ callArgs.outcome[callArgs.pids[1]] = "gone"
  /\ callArgs.outcome[callArgs.pids[2]] = "killed"
  /\ callArgs.outcome[callArgs.pids[3]] = "killed"
  /\ callResult[1].count = 2

(***************************************************************************)
(* Claims about view derivation (SpecSort)                                 *)
(***************************************************************************)
\* The pid and the connection count a row shows.
RowPid(row) == ParsePid(row[2])

RowPorts(row) == Len(row[4])

\* C6: when sortKey is PortCount, two rows with equal connection counts are in
\* ascending pid order for both values of sortDescending, and sortDescending
\* reverses only the order of rows with different connection counts.
C6_TieBreakAscending ==
  (Len(callResult) = 1 /\ callArgs.sortBy = SortPorts) =>
    \A i, j \in 1..Len(callResult[1].rows) :
      i < j =>
        IF RowPorts(callResult[1].rows[i]) = RowPorts(callResult[1].rows[j])
          THEN RowPid(callResult[1].rows[i]) < RowPid(callResult[1].rows[j])
          ELSE IF callArgs.sortDesc
            THEN RowPorts(callResult[1].rows[i]) > RowPorts(callResult[1].rows[j])
            ELSE RowPorts(callResult[1].rows[i]) < RowPorts(callResult[1].rows[j])

(***************************************************************************)
(* The filter of updateTable applied on its own: snapshots of the scanner, *)
(* both groups, the ports-only filter on and off, and search texts         *)
(***************************************************************************)
ProcRedis == Handle(300, << "r", "e", "d", "i", "s", "-", "s", "e", "r", "v", "e", "r" >>, "me", 1, 5)

\* Besides the three processes, redis-server listens on 6379.
OsRedis == OsState(<< ProcApi, ProcRedis, ProcWeb, ProcDb >>,
                   << Conn(300, 6379, "LISTEN"), Conn(200, 8080, "LISTEN"),
                      Conn(7, 80, "ESTABLISHED") >>)

\* Two processes of the user: pid 100 without ports, pid 200 listening.
OsTwo == OsState(<< ProcApi, ProcWeb >>, << Conn(200, 8080, "LISTEN") >>)

DeriveSnapshots == {ScanProcesses(os).procs : os \in {OsAll, OsRedis, OsTwo}}

DeriveTexts ==
  { <<>>, << "3", "7", "9" >>, << "r", "e", "d", "i", "s" >>, << "R", "E", "D", "I", "S" >>, << "6", "3", "8", "0" >>, << "W" >>, << "w" >>, << "8" >>, << "8", "0" >> }

DeriveCalls ==
  {[initialModel EXCEPT !.processes = ps, !.activeTab = tab, !.filterPorts = fp, !.value = v] :
     ps \in DeriveSnapshots, tab \in 0..1, fp \in BOOLEAN, v \in DeriveTexts}

InitDerive ==
  /\ InitSession
  /\ callArgs \in DeriveCalls
  /\ callResult = <<>>

SpecDerive == InitDerive /\ [][CallUpdateTable]_vars

(***************************************************************************)
(* Claims about the kill workflow (SpecKill)                               *)
(***************************************************************************)
\* The pids InitiateKill captures in state mm: the selection, or else the
\* row under the cursor.
VictimsOf(mm) ==
  IF mm.selectedPids # {} THEN mm.selectedPids
  ELSE IF SelectedRow(mm.rows, mm.cursor) # <<>>
    THEN {ParsePid(SelectedRow(mm.rows, mm.cursor)[2])}
  ELSE {}

\* C1: a termination is started only by a 'y' key handled in ConfirmingKill,
\* with exactly the pending targets; these are the pids the kill key captured
\* when it opened the confirmation, and nothing changes them while it is
\* open; no other event starts a termination.
C1_KillOnlyOnConfirm ==
  [][ /\ kills' # kills /\ Len(kills') >= Len(kills) =>
           /\ m.confirming /\ ~m.searching
           /\ \E k \in {"y", "Y"} : Key(k)
           /\ kills' = Append(kills, m.pendingPids)
           /\ ~m'.confirming
      /\ ~m.confirming /\ m'.confirming =>
           /\ Key("k")
           /\ Range(m'.pendingPids) = VictimsOf(m)
           /\ Len(m'.pendingPids) = Cardinality(VictimsOf(m))
      /\ m.confirming /\ m'.confirming => m'.pendingPids = m.pendingPids
    ]_vars

\* C1's case: a termination of two selected pids is running, the confirmation
\* having been answered.
C1_ConfirmedKillRunning ==
  /\ Len(kills) = 1
  /\ Len(kills[1]) = 2
  /\ ~m.confirming
  /\ m.notification.kind = "Killing"

\* C5 as stated: whatever the outcomes, the result's delivery posts the
\* success count and leaves the selection empty.
C5_AlwaysCountAndClear ==
  [][ \A i \in 1..Len(kills) : \A outcome \in [Range(kills[i]) -> KillOutcomes] :
        Kill(i, outcome) =>
          /\ m'.notification =
               Notification("Successfully killed", RunKill(kills[i], outcome).count, "")
          /\ m'.selectedPids = {}
    ]_vars

\* C5: when a termination result is delivered, a result without error posts
\* the success count and empties the selection; a result with an error posts
\* the error alone and leaves the selection as it was.
C5_CountAndClearOnSuccess ==
  [][ \A i \in 1..Len(kills) : \A outcome \in [Range(kills[i]) -> KillOutcomes] :
        Kill(i, outcome) =>
          IF RunKill(kills[i], outcome).err = NilErr
            THEN /\ m'.notification =
                      Notification("Successfully killed", RunKill(kills[i], outcome).count, "")
                 /\ m'.selectedPids = {}
            ELSE /\ m'.notification =
                      Notification("Error", 0, RunKill(kills[i], outcome).err.what)
                 /\ m'.selectedPids = m.selectedPids
    ]_vars

\* C5's case: a result with an error has been delivered while two pids were
\* selected.
C5_ErrorDelivered ==
  /\ m.notification.kind = "Error"
  /\ Cardinality(m.selectedPids) = 2
  /\ kills = <<>>

(***************************************************************************)
(* Claims about the refresh loop (SpecRefresh, FairRefresh)                *)
(***************************************************************************)
\* The collections started whose result has not been delivered.
InFlight == {i \in 1..Len(scans) : scans[i].run}

\* C2: at most one collection is in flight at any time.
C2_AtMostOneInFlight == Cardinality(InFlight) <= 1

\* A collection returns without error.
ScanSucceeds == \E i \in 1..Len(scans), res \in ScanResults : res.err = NoErr /\ Scan(i, res)

\* C7: once a collection error has put the session in the error state, a
\* collection that completes successfully clears it.
C7_SuccessClearsError == [][(m.err # NoErr /\ ScanSucceeds) => m'.err = NoErr]_vars

\* C8: isLoading is true only while a collection is outstanding.
C8_LoadingOnlyInFlight == m.loading => InFlight # {}

\* What Update answers to a tick in the current state.
OnTick == Update(m, [type |-> "tick"], <<>>)

\* C9: the session starts with a collection; one tick is pending at all
\* times until Quit; in every state Update answers a tick with a collection
\* and a tick, and every tick that fires starts a collection and leaves one
\* tick pending; so collections are started again and again unless the
\* session quits.
C9_RefreshNeverStops ==
  /\ (scans = << NewScan >> /\ ticks = 1)
  /\ [](~quit => ticks = 1)
  /\ [](OnTick.cmds = << ScanProcessesCmd, TickCmd >> /\ OnTick.m = m)
  /\ [][Tick => (scans' = Append(scans, NewScan) /\ ticks' = 1)]_vars
  /\ (<>quit \/ []<><<Len(scans') > Len(scans)>>_vars)

\* C9's case: a collection has failed, the search box is open, and the tick
\* after the failure has started the next collection and is pending again.
C9_TickAfterFailureWhileSearching ==
  /\ m.err # NoErr
  /\ m.searching
  /\ scans = << NewScan >>
  /\ ticks = 1

(***************************************************************************)
(* Claims about the selection (SpecView)                                   *)
(***************************************************************************)
\* C10: the selection is changed by nothing except ToggleSelection (the
\* space key in Normal) and a kill's completion: sorting, filtering,
\* switching group, typing in the search box and a refresh leave it as it is,
\* also for a selected pid that is hidden or gone.
C10_SelectionFrame ==
  [][ m'.selectedPids # m.selectedPids =>
        \/ ~m.searching /\ ~m.confirming /\ Key(" ")
        \/ \E i \in 1..Len(kills) : \E outcome \in [Range(kills[i]) -> KillOutcomes] :
             Kill(i, outcome)
    ]_vars

\* The pids the table shows.
ShownPids == {ParsePid(m.rows[i][2]) : i \in 1..Len(m.rows)}

\* C10's case: a selected pid is gone from the snapshot and from the rows,
\* after the sort key, the sort direction, the filter and the search text
\* have changed.
C10_SelectedPidGone ==
  /\ m.selectedPids # {}
  /\ m.selectedPids \cap ShownPids = {}
  /\ m.selectedPids \cap {m.processes[i].PID : i \in 1..Len(m.processes)} = {}
  /\ Len(m.processes) > 0
  /\ m.sortBy # SortPorts
  /\ ~m.sortDesc
  /\ ~m.filterPorts
  /\ m.value # <<>>

(***************************************************************************)
(* Claims about the input routing (SpecRouting, SpecKill)                  *)
(***************************************************************************)
\* The keys of SwitchGroup, ToggleSelection, InitiateKill,
\* TogglePortsOnlyFilter, CycleSortKey and ToggleSortDirection.
HotKeys == {"tab", " ", "k", "f", "s", "o"}

\* The keys that answer the confirmation prompt.
AnswerKeys == {"y", "Y", "n", "N", "esc"}

\* activeGroup, selection, pendingKillTargets, portsOnlyFilter, sortKey and
\* sortDescending are the same in mm and nn.
SameWorkflowFields(mm, nn) ==
  /\ nn.activeTab = mm.activeTab
  /\ nn.selectedPids = mm.selectedPids
  /\ nn.pendingPids = mm.pendingPids
  /\ nn.filterPorts = mm.filterPorts
  /\ nn.sortBy = mm.sortBy
  /\ nn.sortDesc = mm.sortDesc

\* C12: while the session is in ConfirmingKill or in Searching, the hot keys
\* change none of activeGroup, selection, pendingKillTargets, portsOnlyFilter,
\* sortKey, sortDescending; ConfirmingKill is left only by y, n and Escape,
\* and every other key leaves the whole session state as it is.
C12_WorkflowExclusivity ==
  [][ /\ ((m.searching \/ m.confirming)
            /\ \E k \in HotKeys : KeyWithin(k, RoutingValues)) => SameWorkflowFields(m, m')
      /\ (m.confirming /\ ~m'.confirming) => \E k \in AnswerKeys : KeyWithin(k, RoutingValues)
      /\ (m.confirming /\ ~m.searching
            /\ \E k \in RoutingKeys \ AnswerKeys : KeyWithin(k, RoutingValues)) =>
           UNCHANGED vars
    ]_vars

\* C12's case: the sort key was typed into the search box while two pids were
\* selected, and the view is still sorted as at the start.
C12_HotKeyTypedWhileSearching ==
  /\ m.searching
  /\ m.value = << "s" >>
  /\ Cardinality(m.selectedPids) = 2
  /\ m.sortBy = SortPorts

\* C13: the searching flag and the confirming flag are never both true.
C13_OneRoutingState == ~(m.searching /\ m.confirming)

\* C13's case: a confirmation is open over a filtered view, the search box
\* having been used and left, while a notification timer is pending.
C13_ConfirmingAfterSearch ==
  /\ m.confirming
  /\ ~m.searching
  /\ m.value # <<>>
  /\ timers > 0

\* C15: n or Escape in ConfirmingKill returns to Normal with no pending pids
\* and the notification "Cancelled."; it starts no termination and no
\* collection, and leaves the selection, the snapshot and the view parameters
\* as they were.
C15_CancelKill ==
  [][ (m.confirming /\ ~m.searching /\ \E k \in {"n", "esc"} : KeyWithin(k, RoutingValues)) =>
        /\ ~m'.confirming /\ ~m'.searching
        /\ m'.pendingPids = <<>>
        /\ m'.notification = Notification("Cancelled.", 0, "")
        /\ kills' = kills /\ scans' = scans /\ ticks' = ticks
        /\ m' = [m EXCEPT !.confirming = FALSE, !.pendingPids = <<>>,
                          !.notification = Notification("Cancelled.", 0, "")]
    ]_vars

\* C15's case: a kill of two selected pids has been cancelled.
C15_CancelledWithSelection ==
  /\ m.notification.kind = "Cancelled."
  /\ ~m.confirming
  /\ Cardinality(m.selectedPids) = 2
  /\ m.pendingPids = <<>>

\* C19: Enter or Escape in Searching moves to Normal and leaves the search
\* text, the rows, the selection and every other field as they were.
C19_LeaveSearchKeepsText ==
  [][ (m.searching /\ \E k \in {"enter", "esc"} : KeyWithin(k, RoutingValues)) =>
        /\ ~m'.searching /\ ~m'.confirming
        /\ m' = [m EXCEPT !.searching = FALSE]
        /\ UNCHANGED << scans, ticks, kills, timers, quit >>
    ]_vars

\* C19's case: the search box has been left with a text that filters the
\* rows down to one.
C19_LeftSearchWithText ==
  /\ ~m.searching
  /\ m.value = << "W" >>
  /\ Len(m.rows) = 1
  /\ Len(m.processes) = 3

(***************************************************************************)
(* Claims about the selection toggle and the cursor (SpecView)             *)
(***************************************************************************)
\* activeGroup, portsOnlyFilter, searchText, sortKey and sortDescending are
\* the same in mm and nn.
SameViewParameters(mm, nn) ==
  /\ nn.activeTab = mm.activeTab
  /\ nn.filterPorts = mm.filterPorts
  /\ nn.value = mm.value
  /\ nn.sortBy = mm.sortBy
  /\ nn.sortDesc = mm.sortDesc

\* S with the membership of p flipped.
Flipped(S, p) == IF p \in S THEN S \ {p} ELSE S \cup {p}

\* What Update answers to the space key in the current state.
OnToggle == Update(m, [type |-> "key", key |-> " "], <<>>).m

\* C11: ToggleSelection in Normal leaves the view parameters alone; with an
\* empty row list it changes nothing; otherwise it flips the membership of
\* exactly one pid, the pid of the row under the cursor, which is a pid the
\* row list shows.
C11_ToggleFlipsCursorPid ==
  (~m.searching /\ ~m.confirming) =>
    /\ SameViewParameters(m, OnToggle)
    /\ IF m.rows = <<>> THEN OnToggle.selectedPids = m.selectedPids
       ELSE /\ m.cursor \in 0..(Len(m.rows) - 1)
            /\ RowPid(m.rows[m.cursor + 1]) \in ShownPids
            /\ OnToggle.selectedPids = Flipped(m.selectedPids, RowPid(m.rows[m.cursor + 1]))

\* C18: after every derivation the cursor is a valid index whenever the row
\* list is non-empty, and is 'no selection' (-1) exactly when it is empty.
\* (Before the first derivation the row list is empty and the cursor is 0.)
C18_CursorValid ==
  IF m.rows = <<>> THEN m.cursor \in {-1, 0}
  ELSE m.cursor \in 0..(Len(m.rows) - 1)

(***************************************************************************)
(* Claims about InitiateKill (SpecKill)                                    *)
(***************************************************************************)
\* What Update answers to the kill key in the current state, the range over
\* the selection taking the given order.
OnKillKey(order) == Update(m, [type |-> "key", key |-> "k"], order).m

\* C14: InitiateKill in Normal: with a non-empty selection the session enters
\* ConfirmingKill with the selection as pending pids (each once); with an
\* empty selection and a row under the cursor it enters ConfirmingKill with
\* that row's pid alone; with an empty selection and no row under the cursor
\* it stays in Normal and the pending pids are unchanged.
C14_InitiateKill ==
  (~m.searching /\ ~m.confirming) =>
    \A order \in MapOrders(m.selectedPids) :
      IF m.selectedPids # {}
        THEN /\ OnKillKey(order).confirming /\ ~OnKillKey(order).searching
             /\ Range(OnKillKey(order).pendingPids) = m.selectedPids
             /\ Len(OnKillKey(order).pendingPids) = Cardinality(m.selectedPids)
      ELSE IF SelectedRow(m.rows, m.cursor) # <<>>
        THEN /\ OnKillKey(order).confirming /\ ~OnKillKey(order).searching
             /\ OnKillKey(order).pendingPids = << RowPid(SelectedRow(m.rows, m.cursor)) >>
      ELSE /\ ~OnKillKey(order).confirming /\ ~OnKillKey(order).searching
           /\ OnKillKey(order).pendingPids = m.pendingPids

\* C14's case: the kill key has captured a selection of two pids while the
\* cursor is on the row of one of them only.
C14_SelectionCaptured ==
  /\ m.confirming
  /\ Len(m.pendingPids) = 2
  /\ Range(m.pendingPids) = m.selectedPids
  /\ Len(m.rows) = 2

(***************************************************************************)
(* Claims about the refresh result (SpecRefresh)                           *)
(***************************************************************************)
\* C16: a refresh result is applied in whichever routing state it arrives:
\* the snapshot becomes exactly the delivered one, the rows are derived from
\* it, isLoading becomes false, and the routing state, the pending pids, the
\* notification, the selection and the view parameters are unchanged.
C16_RefreshApplied ==
  [][ \A i \in 1..Len(scans) : \A res \in ScanResults :
        (res.err = NoErr /\ Scan(i, res)) =>
          /\ m'.processes = res.procs
          /\ m'.rows = DeriveRows(res.procs, m.selectedPids, m.activeTab, m.filterPorts,
                                  m.sortBy, m.sortDesc, m.value)
          /\ ~m'.loading
          /\ m'.searching = m.searching /\ m'.confirming = m.confirming
          /\ m'.pendingPids = m.pendingPids
          /\ m'.notification = m.notification
          /\ m'.selectedPids = m.selectedPids
          /\ SameViewParameters(m, m')
    ]_vars

\* C16's case: while the kill of pid 200 waits for its confirmation, a
\* refresh has replaced the snapshot by one that lacks pid 200.
C16_RefreshedWhileConfirming ==
  /\ m.confirming
  /\ m.pendingPids = << 200 >>
  /\ m.processes = ScanProcesses(OsNoWeb).procs
  /\ ~m.loading

(***************************************************************************)
(* Claims about the filter (SpecDerive)                                    *)
(***************************************************************************)
\* name contains text, case-insensitively.
ContainsFold(name, text) ==
  \E i \in 0..(Len(name) - Len(text)) :
    \A j \in 1..Len(text) : ToLower(<< name[i + j] >>) = ToLower(<< text[j] >>)

\* The classification a group shows.
GroupType(activeTab) == IF activeTab = 0 THEN UserProcess ELSE SystemProcess

\* The pids of the records of mm's snapshot that pass the three filters.
ExpectedPids(mm) ==
  {mm.processes[i].PID : i \in
     {i \in 1..Len(mm.processes) :
        /\ mm.processes[i].Type = GroupType(mm.activeTab)
        /\ mm.filterPorts => Len(mm.processes[i].Connections) >= 1
        /\ mm.value # <<>> =>
             \/ ContainsFold(mm.processes[i].Name, mm.value)
             \/ \E c \in 1..Len(mm.processes[i].Connections) :
                  Contains(FormatDec(mm.processes[i].Connections[c].Port), mm.value)}}

\* The pids of the rows, in order.
RowPids(rows) == [i \in 1..Len(rows) |-> RowPid(rows[i])]

\* C17: after a derivation the pids of the rows are exactly the pids of the
\* snapshot records of the active group that have a connection when the
\* ports-only filter is on and match the search text when there is one; from
\* the initial view parameters, user-owned pid 100 (no ports) and pid 200 (one
\* LISTEN port) yield pid 200 alone, and 200 then 100 with the filter off.
C17_FilterExact ==
  Len(callResult) = 1 =>
    /\ Range(RowPids(callResult[1].rows)) = ExpectedPids(callArgs)
    /\ Len(callResult[1].rows) = Cardinality(ExpectedPids(callArgs))
    /\ (callArgs.processes = ScanProcesses(OsTwo).procs /\ callArgs.activeTab = 0
          /\ callArgs.value = <<>>) =>
         RowPids(callResult[1].rows) = IF callArgs.filterPorts THEN << 200 >> ELSE << 200, 100 >>

\* C17's case: the text REDIS has been searched in the snapshot with
\* redis-server on 6379, and the rows show pid 300 alone.
C17_RedisFound ==
  /\ Len(callResult) = 1
  /\ callArgs.value = << "R", "E", "D", "I", "S" >>
  /\ callArgs.activeTab = 0
  /\ RowPids(callResult[1].rows) = << 300 >>

(***************************************************************************)
(* The scanner applied on its own: two enumerated processes, every         *)
(* combination of failing field reads, net.Connections failing or not      *)
(***************************************************************************)
FaultFields == {"Name", "Username", "Cwd", "Cmdline", "Percent", "MemoryInfo"}

\* The handle h with the reads of the fields in failing failing (what the
\* read would have yielded stays behind the failure, unread).
WithFaults(h, failing) ==
  [f \in DOMAIN h |-> IF f \in failing THEN [h[f] EXCEPT !.ok = FALSE] ELSE h[f]]

ScanCalls ==
  {[OsAll EXCEPT !.procs = << WithFaults(ProcWeb, f1), WithFaults(ProcDb, f2) >>,
                 !.connsErr = ce] :
     f1 \in SUBSET FaultFields, f2 \in SUBSET FaultFields, ce \in BOOLEAN}

InitScan ==
  /\ InitSession
  /\ callArgs \in ScanCalls
  /\ callResult = <<>>

\* scanner.ScanProcesses runs on the OS state.
CallScanProcesses ==
  /\ callResult = <<>>
  /\ callResult' = << ScanProcesses(callArgs) >>
  /\ UNCHANGED << m, scans, ticks, kills, timers, quit, callArgs >>

SpecScan == InitScan /\ [][CallScanProcesses]_vars

(***************************************************************************)
(* Claims about the scanner (SpecScan)                                     *)
(***************************************************************************)
\* The value read, or the default when the read failed.
ReadOr(field, default) == IF field.ok THEN field.v ELSE default

\* The enumerated processes whose name read succeeded, in order.
Named(os) == SelectSeq(os.procs, LAMBDA h : h.Name.ok)

\* C20: a successful collection holds a record for exactly the enumerated
\* processes whose name read succeeded; such a record is there whatever other
\* reads failed, with owner "unknown", empty working directory and command
\* line, and 0 for CPU and memory in place of what could not be read.
C20_RecordIffNameRead ==
  (Len(callResult) = 1 /\ callResult[1].err = NoErr) =>
    /\ Len(callResult[1].procs) = Len(Named(callArgs))
    /\ \A i \in 1..Len(callResult[1].procs) :
         /\ callResult[1].procs[i].PID = Named(callArgs)[i].Pid
         /\ callResult[1].procs[i].Name = Named(callArgs)[i].Name.v
         /\ callResult[1].procs[i].User = ReadOr(Named(callArgs)[i].Username, "unknown")
         /\ callResult[1].procs[i].Cwd = ReadOr(Named(callArgs)[i].Cwd, <<>>)
         /\ callResult[1].procs[i].Command = ReadOr(Named(callArgs)[i].Cmdline, <<>>)
         /\ callResult[1].procs[i].CPUPercent = ReadOr(Named(callArgs)[i].Percent, 0)
         /\ callResult[1].procs[i].MemoryUsage = ReadOr(Named(callArgs)[i].MemoryInfo, 0)

\* C20's case: the name of the first process could not be read, and of the
\* second nothing but the name; the collection holds the second alone.
C20_OnlyNameRead ==
  /\ Len(callResult) = 1
  /\ ~callArgs.procs[1].Name.ok
  /\ callArgs.procs[2].Name.ok
  /\ \A f \in FaultFields \ {"Name"} : ~callArgs.procs[2][f].ok
  /\ Len(callResult[1].procs) = 1
  /\ callResult[1].procs[1].PID = 7
  /\ callResult[1].procs[1].User = "unknown"

\* The rows updateTable derives from the snapshot procs for a group, with the
\* ports-only filter on, under a sort key, a direction and a search text.
PortsOnlyRows(procs, tab, sb, sd, v) ==
  updateTable([initialModel EXCEPT !.processes = procs, !.activeTab = tab, !.filterPorts = TRUE,
                                   !.sortBy = sb, !.sortDesc = sd, !.value = v]).rows

\* C21: when connection enumeration fails and process enumeration succeeds,
\* the collection succeeds, every record has an empty connection list, and
\* with the ports-only filter on the rows derived from it are empty for both
\* groups.
C21_NoConnectionsNoRows ==
  (Len(callResult) = 1 /\ callArgs.connsErr) =>
    /\ callResult[1].err = NoErr
    /\ Len(callResult[1].procs) = Len(Named(callArgs))
    /\ \A i \in 1..Len(callResult[1].procs) : callResult[1].procs[i].Connections = <<>>
    /\ \A tab \in 0..1, sb \in SortPID..SortMem, sd \in BOOLEAN, v \in {<<>>, << "W" >>} :
         PortsOnlyRows(callResult[1].procs, tab, sb, sd, v) = <<>>

\* C21's case: connection enumeration failed, both processes were read, and
\* the collection holds both.
C21_ConnectionsFailed ==
  /\ Len(callResult) = 1
  /\ callArgs.connsErr
  /\ Len(callArgs.conns) > 0
  /\ Len(callResult[1].procs) = 2
  /\ callResult[1].procs[1].Type # callResult[1].procs[2].Type

\* C25: the retained snapshot never goes backwards: a collection whose
\* result replaces the snapshot was started after the collection that
\* produced the snapshot it replaces, so it is not one that a later-started
\* collection has already overtaken.
C25_SnapshotNeverGoesBack ==
  [][\A i \in 1..Len(scans), res \in ScanResults :
       (scans[i].run /\ res.err = NoErr /\ Scan(i, res)) => ~scans[i].stale]_vars

\* A termination result is delivered.
KillDelivered == \E i \in 1..Len(kills) : \E outcome \in [Range(kills[i]) -> KillOutcomes] : Kill(i, outcome)

\* A collection's snapshot replaces the retained one.
SnapshotReplaced ==
  \E i \in 1..Len(scans), res \in ScanResults : scans[i].run /\ res.err = NoErr /\ Scan(i, res)

\* C22: every confirmed kill is followed by a re-collection: a termination
\* that was confirmed does not stay pending for ever, the delivery of its
\* result starts a new collection whether or not a termination failed, and a
\* collection in flight does not stay so without snapshots being replaced.
C22_KillThenRecollect ==
  /\ (<>[](kills = <<>>)) \/ ([]<><<KillDelivered>>_vars)
  /\ [][KillDelivered => (Len(kills') = Len(kills) - 1 /\ scans' = Append(scans, NewScan))]_vars
  /\ (<>[](InFlight = {})) \/ ([]<><<SnapshotReplaced>>_vars)

\* C22's case: a termination failed, its result was delivered, and the
\* collection it started is in flight.
C22_RecollectAfterFailedKill ==
  /\ m.notification.kind = "Error"
  /\ kills = <<>>
  /\ Len(scans) > 0
  /\ scans[Len(scans)] = NewScan
  /\ ~m.loading

\* C23: every notification expires: whenever the notification is non-empty
\* a notification timeout is pending that will clear it.
C23_NotificationHasTimeout == (m.notification # NoNotification) => (timers > 0)

\* C24: pendingPids is non-empty exactly when the session is confirming a
\* kill: it is empty again after the kill is confirmed and after it is
\* cancelled.
C24_PendingIffConfirming == (m.pendingPids # <<>>) <=> m.confirming

\* C26 as stated: at the moment the kill key moves the session to
\* ConfirmingKill, every pending pid is the pid of a row of the derived row
\* list.
C26_TargetsShown ==
  [][(~m.confirming /\ m'.confirming) => Range(m'.pendingPids) \subseteq ShownPids]_vars

\* C26: at the moment the kill key moves the session to ConfirmingKill, the
\* pending pids are the whole selection when there is one, whether or not
\* its pids have a row, and otherwise pids of rows of the derived row list.
C26_TargetsSelectedOrShown ==
  [][(~m.confirming /\ m'.confirming) =>
       /\ m'.rows = m.rows
       /\ IF m.selectedPids # {}
            THEN Range(m'.pendingPids) = m.selectedPids
            ELSE Range(m'.pendingPids) # {} /\ Range(m'.pendingPids) \subseteq ShownPids]_vars

\* C26's case: the session is confirming the kill of a selected pid that has
\* no row, next to the rows that are shown.
C26_HiddenTargetPending ==
  /\ m.confirming
  /\ Range(m.pendingPids) = m.selectedPids
  /\ Range(m.pendingPids) \ ShownPids # {}
  /\ m.rows # <<>>

\* C27: a notification is cleared only by its own timeout.  The timers all
\* last 3 s and fire in the order they were started, each started together
\* with a notification: when a timeout fires and clears a notification, no
\* timeout started later, with a later notification, is pending.
C27_ClearedByOwnTimeout ==
  [][(timers' = timers - 1 /\ m.notification # NoNotification /\ m'.notification = NoNotification)
       => timers = 1]_vars

\* The comparison sort.Slice is given for the call callArgs.
Less(a, b) == SortLess(callArgs.sortBy, callArgs.sortDesc, a, b)

\* C28: for every sort key and both directions the comparison is a strict
\* ordering of the records: no record is before itself and no two records
\* are each before the other, records with equal Name, CPU, Memory or port
\* count included.
C28_StrictOrdering ==
  \A i, j \in 1..Len(callArgs.processes) :
    /\ ~Less(callArgs.processes[i], callArgs.processes[i])
    /\ ~(Less(callArgs.processes[i], callArgs.processes[j]) /\ Less(callArgs.processes[j], callArgs.processes[i]))

====
